---- MODULE Spec2Model ----
(***************************************************************************)
(* Model of instructions/check_file_length.py: main() scans sys.argv[1:],  *)
(* counts the lines of every path ending in '.py', aborts on the first     *)
(* read error, and reports the files longer than 300 lines.                *)
(***************************************************************************)
EXTENDS Integers, Sequences, FiniteSets, TLC

\* Longest argument list explored.
MaxArgs == 3
\* Longest argument list explored when the checker is invoked twice.
MaxArgsTwice == 2
\* Line counts explored go up to the limit plus this many lines.
MaxExcess == 2

\* The fixed limit of "if line_count > 300".
Threshold == 300

\* The suffix of "filepath.endswith('.py')", a string as its characters.
Suffix == <<".", "p", "y">>

\* Candidate paths: two qualifying ones, one differing by case only, and one
\* that contains ".py" but does not end with it.
Paths ==
  { <<"a", ".", "p", "y">>,
    <<"b", ".", "p", "y">>,
    <<"a", ".", "P", "Y">>,
    <<"a", ".", "p", "y", "c">> }

LineCounts == {0} \cup (Threshold .. (Threshold + MaxExcess))

\* What the filesystem holds under a path: a text file of so many lines, no
\* file at all (open() raises), or bytes that do not decode (iteration raises).
FileStates ==
  [kind : {"text"}, lines : LineCounts]
    \cup [kind : {"missing", "undecodable"}, lines : {0}]

VARIABLES
  argv,        \* sys.argv[1:]
  fs,          \* the files named by argv
  pc,          \* "for": at the loop head; "with": file open; "done": exited
  i,           \* number of argv positions the for loop has taken
  f,           \* positions whose file object is open
  opened,      \* positions on which open() was called, in call order
  violations,  \* the violations list
  stdout,      \* lines printed so far
  exit,        \* <<>> while running, <<status>> once sys.exit ran
  run,         \* 1 in the first invocation, 2 in the second
  prev         \* <<>>, or the result and filesystem of the first invocation

vars == <<argv, fs, pc, i, f, opened, violations, stdout, exit, run, prev>>

Named(args) == {args[k] : k \in 1 .. Len(args)}

\* Mutant of EndsWith: a substring test ('.py' in filepath).
EndsWith_contains(s, suffix) ==
  \E j \in 1 .. Len(s) :
    /\ j + Len(suffix) - 1 <= Len(s)
    /\ SubSeq(s, j, j + Len(suffix) - 1) = suffix

\* str.endswith
EndsWith(s, suffix) ==
  /\ Len(s) >= Len(suffix)
  /\ SubSeq(s, Len(s) - Len(suffix) + 1, Len(s)) = suffix

\* Mutant of ExceedsLimit: an inclusive comparison.
ExceedsLimit_inclusive(line_count) == line_count >= Threshold

\* "if line_count > 300"
ExceedsLimit(line_count) == line_count > Threshold

\* str(e) of the exception raised for a file in the given state.
Describe(kind) ==
  IF kind = "missing"
    THEN "[Errno 2] No such file or directory"
    ELSE "'utf-8' codec can't decode byte"

\* print(f"Error reading {filepath}: {e}")
ErrorLine(filepath, e) ==
  [kind |-> "error", path |-> filepath, count |-> 0, detail |-> e]

\* print("Files exceeding 300 lines:")
Header ==
  [kind |-> "header", path |-> <<>>, count |-> 0,
   detail |-> "Files exceeding 300 lines:"]

\* print(f"  {filepath}: {count} lines")
EntryLine(filepath, count) ==
  [kind |-> "entry", path |-> filepath, count |-> count, detail |-> ""]

Init ==
  /\ argv \in UNION {[1 .. n -> Paths] : n \in 0 .. MaxArgs}
  /\ fs \in [Named(argv) -> FileStates]
  /\ pc = "for"
  /\ i = 0
  /\ f = {}
  /\ opened = <<>>
  /\ violations = <<>>
  /\ stdout = <<>>
  /\ exit = <<>>
  /\ run = 1
  /\ prev = <<>>

\* for filepath in sys.argv[1:]: if not filepath.endswith('.py'): continue
Skip ==
  /\ pc = "for"
  /\ i < Len(argv)
  /\ ~EndsWith(argv[i + 1], Suffix)
  /\ i' = i + 1
  /\ UNCHANGED <<argv, fs, pc, f, opened, violations, stdout, exit, run, prev>>

\* open(filepath) succeeds: the with block is entered.
OpenOk ==
  /\ pc = "for"
  /\ i < Len(argv)
  /\ EndsWith(argv[i + 1], Suffix)
  /\ fs[argv[i + 1]].kind # "missing"
  /\ i' = i + 1
  /\ f' = f \cup {i + 1}
  /\ opened' = Append(opened, i + 1)
  /\ pc' = "with"
  /\ UNCHANGED <<argv, fs, violations, stdout, exit, run, prev>>

\* Mutant of OpenFail: the error is printed but the scan goes on (a per-file
\* skip instead of an abort).
OpenFail_skip ==
  /\ pc = "for"
  /\ i < Len(argv)
  /\ EndsWith(argv[i + 1], Suffix)
  /\ fs[argv[i + 1]].kind = "missing"
  /\ i' = i + 1
  /\ opened' = Append(opened, i + 1)
  /\ stdout' =
       Append(stdout, ErrorLine(argv[i + 1], Describe(fs[argv[i + 1]].kind)))
  /\ UNCHANGED <<argv, fs, pc, f, violations, exit, run, prev>>

\* open(filepath) raises: the handler prints the error and exits with 1.
OpenFail ==
  /\ pc = "for"
  /\ i < Len(argv)
  /\ EndsWith(argv[i + 1], Suffix)
  /\ fs[argv[i + 1]].kind = "missing"
  /\ i' = i + 1
  /\ opened' = Append(opened, i + 1)
  /\ stdout' =
       Append(stdout, ErrorLine(argv[i + 1], Describe(fs[argv[i + 1]].kind)))
  /\ exit' = Append(exit, 1)
  /\ pc' = "done"
  /\ UNCHANGED <<argv, fs, f, violations, run, prev>>

\* Mutant of CountOk: the file is never closed (no with block).
CountOk_leak ==
  /\ pc = "with"
  /\ fs[argv[i]].kind = "text"
  /\ violations' =
       IF ExceedsLimit(fs[argv[i]].lines)
         THEN Append(violations, <<argv[i], fs[argv[i]].lines>>)
         ELSE violations
  /\ pc' = "for"
  /\ UNCHANGED <<argv, fs, i, f, opened, stdout, exit, run, prev>>

\* Mutant of CountOk: a path already recorded is not recorded again.
CountOk_dedup ==
  /\ pc = "with"
  /\ fs[argv[i]].kind = "text"
  /\ f' = f \ {i}
  /\ violations' =
       IF /\ ExceedsLimit(fs[argv[i]].lines)
          /\ \A n \in 1 .. Len(violations) : violations[n][1] # argv[i]
         THEN Append(violations, <<argv[i], fs[argv[i]].lines>>)
         ELSE violations
  /\ pc' = "for"
  /\ UNCHANGED <<argv, fs, i, opened, stdout, exit, run, prev>>

\* line_count = sum(1 for _ in f); the with block closes the file; a count
\* above the limit is appended to violations.
CountOk ==
  /\ pc = "with"
  /\ fs[argv[i]].kind = "text"
  /\ f' = f \ {i}
  /\ violations' =
       IF ExceedsLimit(fs[argv[i]].lines)
         THEN Append(violations, <<argv[i], fs[argv[i]].lines>>)
         ELSE violations
  /\ pc' = "for"
  /\ UNCHANGED <<argv, fs, i, opened, stdout, exit, run, prev>>

\* Mutant of CountFail: the violations collected so far are printed before
\* the error line.
CountFail_flush ==
  /\ pc = "with"
  /\ fs[argv[i]].kind # "text"
  /\ f' = f \ {i}
  /\ stdout' =
       (IF violations = <<>>
          THEN stdout
          ELSE stdout \o <<Header>>
                 \o [k \in 1 .. Len(violations) |->
                       EntryLine(violations[k][1], violations[k][2])])
         \o <<ErrorLine(argv[i], Describe(fs[argv[i]].kind))>>
  /\ exit' = Append(exit, 1)
  /\ pc' = "done"
  /\ UNCHANGED <<argv, fs, i, opened, violations, run, prev>>

\* Iterating the file raises: the with block closes the file, the handler
\* prints the error and exits with 1.
CountFail ==
  /\ pc = "with"
  /\ fs[argv[i]].kind # "text"
  /\ f' = f \ {i}
  /\ stdout' = Append(stdout, ErrorLine(argv[i], Describe(fs[argv[i]].kind)))
  /\ exit' = Append(exit, 1)
  /\ pc' = "done"
  /\ UNCHANGED <<argv, fs, i, opened, violations, run, prev>>

\* Mutant of Report: the violations are printed last to first.
Report_reversed ==
  /\ pc = "for"
  /\ i = Len(argv)
  /\ violations # <<>>
  /\ stdout' =
       stdout \o <<Header>>
         \o [k \in 1 .. Len(violations) |->
               EntryLine(violations[Len(violations) + 1 - k][1],
                         violations[Len(violations) + 1 - k][2])]
  /\ exit' = Append(exit, 1)
  /\ pc' = "done"
  /\ UNCHANGED <<argv, fs, i, f, opened, violations, run, prev>>

\* Mutant of Report: the report ends with a distinct exit status.
Report_status2 ==
  /\ pc = "for"
  /\ i = Len(argv)
  /\ violations # <<>>
  /\ stdout' =
       stdout \o <<Header>>
         \o [k \in 1 .. Len(violations) |->
               EntryLine(violations[k][1], violations[k][2])]
  /\ exit' = Append(exit, 2)
  /\ pc' = "done"
  /\ UNCHANGED <<argv, fs, i, f, opened, violations, run, prev>>

\* if violations: print the header and one line per violation; sys.exit(1)
Report ==
  /\ pc = "for"
  /\ i = Len(argv)
  /\ violations # <<>>
  /\ stdout' =
       stdout \o <<Header>>
         \o [k \in 1 .. Len(violations) |->
               EntryLine(violations[k][1], violations[k][2])]
  /\ exit' = Append(exit, 1)
  /\ pc' = "done"
  /\ UNCHANGED <<argv, fs, i, f, opened, violations, run, prev>>

\* Mutant of ExitClean: a success message is printed.
ExitClean_chatty ==
  /\ pc = "for"
  /\ i = Len(argv)
  /\ violations = <<>>
  /\ stdout' = Append(stdout, EntryLine(<<>>, 0))
  /\ exit' = Append(exit, 0)
  /\ pc' = "done"
  /\ UNCHANGED <<argv, fs, i, f, opened, violations, run, prev>>

\* sys.exit(0)
ExitClean ==
  /\ pc = "for"
  /\ i = Len(argv)
  /\ violations = <<>>
  /\ exit' = Append(exit, 0)
  /\ pc' = "done"
  /\ UNCHANGED <<argv, fs, i, f, opened, violations, stdout, run, prev>>

Next ==
  \/ Skip
  \/ OpenOk
  \/ OpenFail
  \/ CountOk
  \/ CountFail
  \/ Report
  \/ ExitClean

Spec == Init /\ [][Next]_vars

\* main() is a sequential procedure: the interpreter keeps executing it.
FairSpec == Spec /\ WF_vars(Next)

\* The process has exited and the script is invoked again with the same
\* arguments; in between, the environment may have rewritten one named file.
\* Nothing of the first process survives but what the caller observed.
Rerun ==
  /\ pc = "done"
  /\ run = 1
  /\ prev' = <<[stdout |-> stdout, exit |-> exit, fs |-> fs]>>
  /\ \E p \in DOMAIN fs, s \in FileStates : fs' = [fs EXCEPT ![p] = s]
  /\ run' = 2
  /\ pc' = "for"
  /\ i' = 0
  /\ f' = {}
  /\ opened' = <<>>
  /\ violations' = <<>>
  /\ stdout' = <<>>
  /\ exit' = <<>>
  /\ UNCHANGED argv

InitTwice == Init /\ Len(argv) <= MaxArgsTwice

NextTwice == Next \/ Rerun

SpecTwice == InitTwice /\ [][NextTwice]_vars

(***************************************************************************)
(* Vocabulary of the properties, stated on the inputs and on what the run  *)
(* shows, independently of the operators the actions use.                  *)
(***************************************************************************)

\* The path ends with the three characters . p y
IsPy(p) ==
  /\ Len(p) >= 3
  /\ p[Len(p) - 2] = "."
  /\ p[Len(p) - 1] = "p"
  /\ p[Len(p)] = "y"

Positions == 1 .. Len(argv)

Readable(k) == fs[argv[k]].kind = "text"
LinesAt(k) == fs[argv[k]].lines

\* Some qualifying path of the input names an unreadable file.
AnyUnreadable == \E k \in Positions : IsPy(argv[k]) /\ ~Readable(k)

\* Some qualifying path of the input names a readable file over 300 lines.
AnyOver == \E k \in Positions : IsPy(argv[k]) /\ Readable(k) /\ LinesAt(k) > 300

\* The first position holding an unreadable qualifying path (0 if none).
FirstUnreadable ==
  IF AnyUnreadable
    THEN CHOOSE k \in Positions :
           /\ IsPy(argv[k]) /\ ~Readable(k)
           /\ \A j \in 1 .. (k - 1) : ~(IsPy(argv[j]) /\ ~Readable(j))
    ELSE 0

OpenedSet == {opened[n] : n \in 1 .. Len(opened)}

\* Opening or reading some file failed in this run.
Failed == \E k \in OpenedSet : ~Readable(k)

Done == pc = "done"

\* The scan went through every position without a read error.
ScanCompleted == i = Len(argv) /\ pc # "with" /\ ~Failed

\* Positions whose loop iteration has ended.
Processed == IF pc = "with" THEN i - 1 ELSE i

LinesOfKind(kind) == {n \in 1 .. Len(stdout) : stdout[n].kind = kind}

\* The (path, count) pairs of the positions 1..k holding a readable
\* qualifying file of more than 300 lines, in input order.
RECURSIVE OverUpTo(_)
OverUpTo(k) ==
  IF k = 0
    THEN <<>>
    ELSE IF IsPy(argv[k]) /\ Readable(k) /\ LinesAt(k) > 300
           THEN Append(OverUpTo(k - 1), <<argv[k], LinesAt(k)>>)
           ELSE OverUpTo(k - 1)

\* The report lines the pairs stand for.
ReportOf(pairs) ==
  <<[kind |-> "header", path |-> <<>>, count |-> 0,
     detail |-> "Files exceeding 300 lines:"]>>
    \o [n \in 1 .. Len(pairs) |->
          [kind |-> "entry", path |-> pairs[n][1], count |-> pairs[n][2],
           detail |-> ""]]

(***************************************************************************)
(* C1                                                                      *)
(***************************************************************************)

\* C1: main() ends with exit status 1 exactly when the scan completed and a
\* qualifying file had more than 300 lines, or opening or reading a
\* qualifying file failed; otherwise it ends with 0; no other status occurs.
C1_ExitStatus ==
  /\ Len(exit) <= 1
  /\ Done <=> (exit # <<>>)
  /\ Done =>
       /\ exit \in {<<0>>, <<1>>}
       /\ (exit = <<1>>) <=> ((ScanCompleted /\ AnyOver) \/ Failed)
       /\ (exit = <<1>>) <=> (AnyOver \/ AnyUnreadable)

C1_Witness ==
  /\ Done /\ exit = <<1>> /\ ScanCompleted /\ AnyOver
  /\ \E k \in Positions : IsPy(argv[k]) /\ Readable(k) /\ LinesAt(k) = 300

(***************************************************************************)
(* C2                                                                      *)
(***************************************************************************)

C2_Filter ==
  /\ \A k \in 1 .. i : (k \in OpenedSet) <=> IsPy(argv[k])
  /\ \A k \in OpenedSet : k <= i
  /\ \A n \in 1 .. Len(stdout) :
       stdout[n].kind \in {"error", "entry"} => IsPy(stdout[n].path)
  /\ \A n \in 1 .. Len(violations) : IsPy(violations[n][1])

C2_SkipFrame ==
  (i' = i + 1 /\ ~IsPy(argv[i + 1]))
    => UNCHANGED <<pc, f, opened, violations, stdout, exit>>

\* C2: open() is called on a position exactly when its path ends with '.py'
\* and the scan reached it; a path without the suffix is never opened, never
\* named in a report or error line, and passing over it changes neither the
\* output nor the exit status, whatever its file holds.
C2_OnlyPyOpened == [](C2_Filter) /\ [][C2_SkipFrame]_vars

C2_Witness ==
  /\ Done /\ exit = <<0>>
  /\ \E k \in Positions : ~IsPy(argv[k]) /\ fs[argv[k]].kind = "missing"
  /\ \E k \in Positions : ~IsPy(argv[k]) /\ Readable(k) /\ LinesAt(k) > 300
  /\ \E k \in Positions : IsPy(argv[k])

(***************************************************************************)
(* C3                                                                      *)
(***************************************************************************)

InViolations(k) ==
  \E n \in 1 .. Len(violations) : violations[n] = <<argv[k], LinesAt(k)>>

PathInViolations(k) ==
  \E n \in 1 .. Len(violations) : violations[n][1] = argv[k]

PathInReport(k) ==
  \E n \in LinesOfKind("entry") : stdout[n].path = argv[k]

\* C3 as stated: at the end of the run every readable qualifying file of 300
\* lines or less is absent from the violations and the report, and every
\* readable qualifying file of 301 lines or more is recorded as a violation.
C3_AsStated ==
  Done =>
    \A k \in Positions :
      (IsPy(argv[k]) /\ Readable(k)) =>
        /\ LinesAt(k) <= 300 => (~PathInViolations(k) /\ ~PathInReport(k))
        /\ LinesAt(k) >= 301 => InViolations(k)

\* C3 (amended): a readable qualifying file of 300 lines or less is never
\* recorded nor reported; one of 301 lines or more is recorded as a violation
\* as soon as the scan has processed its position, that is whenever no
\* qualifying path before it is unreadable.
C3_StrictThreshold ==
  \A k \in Positions :
    (IsPy(argv[k]) /\ Readable(k)) =>
      /\ LinesAt(k) <= 300 => (~PathInViolations(k) /\ ~PathInReport(k))
      /\ (LinesAt(k) >= 301 /\ k <= Processed) => InViolations(k)
      /\ (LinesAt(k) >= 301 /\ Done /\ (FirstUnreadable = 0 \/ k < FirstUnreadable))
           => InViolations(k)

C3_Witness ==
  /\ Done
  /\ \E j \in 1 .. i, k \in 1 .. i :
       /\ IsPy(argv[j]) /\ Readable(j) /\ LinesAt(j) = 300
       /\ IsPy(argv[k]) /\ Readable(k) /\ LinesAt(k) = 301
       /\ ~PathInViolations(j)
       /\ InViolations(k)

(***************************************************************************)
(* C4                                                                      *)
(***************************************************************************)

EntryLinesFor(k) ==
  {n \in LinesOfKind("entry") :
     stdout[n].path = argv[k] /\ stdout[n].count = LinesAt(k)}

\* C4 as stated: when the scan completes, every qualifying file of more than
\* 300 lines has exactly one report line, the lines follow the input order,
\* and a single header line comes first.
C4_AsStated ==
  (Done /\ ScanCompleted) =>
    /\ \A k \in Positions :
         (IsPy(argv[k]) /\ Readable(k) /\ LinesAt(k) > 300)
           => Cardinality(EntryLinesFor(k)) = 1
    /\ AnyOver => (LinesOfKind("header") = {1})

\* C4 (amended): when the scan completes, the report holds one line per
\* input position whose qualifying file has more than 300 lines (so a path
\* given at k positions has k lines, and exactly one when given once), in
\* input order, each with the path and its counted lines, after the single
\* header line 'Files exceeding 300 lines:'.
C4_ReportContents ==
  (Done /\ ScanCompleted /\ AnyOver) =>
    /\ stdout = ReportOf(OverUpTo(Len(argv)))
    /\ LinesOfKind("header") = {1}
    /\ \A k \in Positions :
         (IsPy(argv[k]) /\ Readable(k) /\ LinesAt(k) > 300) =>
           Cardinality(EntryLinesFor(k))
             = Cardinality({j \in Positions : argv[j] = argv[k]})

C4_Witness ==
  /\ Done /\ ScanCompleted
  /\ \E j \in Positions, k \in Positions :
       /\ j < k
       /\ IsPy(argv[j]) /\ LinesAt(j) = 302
       /\ IsPy(argv[k]) /\ LinesAt(k) = 301
  /\ Len(stdout) = 3

(***************************************************************************)
(* C5                                                                      *)
(***************************************************************************)

\* C5 as stated: for every unreadable qualifying path at a position j and
\* every later position k, k is never opened nor reported, the whole output
\* is the single line 'Error reading <argv[j]>: ...', and the status is 1.
C5_AsStated ==
  Done =>
    \A j \in Positions, k \in Positions :
      (j < k /\ IsPy(argv[j]) /\ ~Readable(j)) =>
        /\ k \notin OpenedSet
        /\ LinesOfKind("entry") = {}
        /\ Len(stdout) = 1
        /\ stdout[1].kind = "error"
        /\ stdout[1].path = argv[j]
        /\ exit = <<1>>

\* C5 (amended): if P is the first unreadable qualifying path of the input,
\* no position after P is opened or reported, the whole output is the single
\* line 'Error reading P: <description>', the status is 1, and the violations
\* collected before P are not printed.
C5_FailFast ==
  (Done /\ AnyUnreadable) =>
    /\ i = FirstUnreadable
    /\ OpenedSet = {k \in 1 .. FirstUnreadable : IsPy(argv[k])}
    /\ violations = OverUpTo(FirstUnreadable)
    /\ Len(stdout) = 1
    /\ stdout[1].kind = "error"
    /\ stdout[1].path = argv[FirstUnreadable]
    /\ stdout[1].detail # ""
    /\ exit = <<1>>

C5_Witness ==
  /\ Done
  /\ violations # <<>>
  /\ fs[argv[i]].kind = "missing"
  /\ i < Len(argv)
  /\ IsPy(argv[Len(argv)])

(***************************************************************************)
(* C6                                                                      *)
(***************************************************************************)

\* C6: a scan that completes with no violation prints nothing and ends with
\* status 0; in particular an input without any path ending in '.py'
\* (the empty input included) gives empty output and status 0.
C6_SilentSuccess ==
  /\ (Done /\ ScanCompleted /\ violations = <<>>)
       => (stdout = <<>> /\ exit = <<0>>)
  /\ (Done /\ ~AnyUnreadable /\ ~AnyOver) => (stdout = <<>> /\ exit = <<0>>)
  /\ (Done /\ \A k \in Positions : ~IsPy(argv[k]))
       => (stdout = <<>> /\ exit = <<0>>)

C6_Witness ==
  /\ Done /\ ScanCompleted /\ violations = <<>>
  /\ Len(argv) = 2
  /\ \A k \in Positions : ~IsPy(argv[k])
  /\ \E k \in Positions : fs[argv[k]].kind = "undecodable"

(***************************************************************************)
(* C7                                                                      *)
(***************************************************************************)

\* C7: no run prints both an 'Error reading' line and the header, at most one
\* 'Error reading' line is ever printed, a run ending with status 1 has
\* printed something and a run ending with status 0 has printed nothing.
C7_ExclusiveShapes ==
  /\ ~(LinesOfKind("error") # {} /\ LinesOfKind("header") # {})
  /\ ~(LinesOfKind("error") # {} /\ LinesOfKind("entry") # {})
  /\ Cardinality(LinesOfKind("error")) <= 1
  /\ (Done /\ exit = <<1>>) => stdout # <<>>
  /\ (Done /\ exit = <<0>>) => stdout = <<>>

C7_Witness ==
  /\ Done
  /\ Len(violations) = 2
  /\ fs[argv[i]].kind = "undecodable"
  /\ LinesOfKind("error") = {1}

(***************************************************************************)
(* C8                                                                      *)
(***************************************************************************)

SecondDone == run = 2 /\ Done

First == prev[1]

SameReadabilityAndCount(p) ==
  /\ (First.fs[p].kind = "text") <=> (fs[p].kind = "text")
  /\ First.fs[p].lines = fs[p].lines

\* The two outputs agree line by line on everything but the description of
\* the failure.
SameUpToDescription ==
  /\ Len(stdout) = Len(First.stdout)
  /\ \A n \in 1 .. Len(stdout) :
       /\ stdout[n].kind = First.stdout[n].kind
       /\ stdout[n].path = First.stdout[n].path
       /\ stdout[n].count = First.stdout[n].count

\* C8 as stated: two runs on the same arguments, with the same readability
\* and line count for every named file, give the same output and status.
C8_AsStated ==
  (SecondDone /\ \A p \in DOMAIN fs : SameReadabilityAndCount(p))
    => (stdout = First.stdout /\ exit = First.exit)

\* C8 (amended): two runs on the same arguments give the same output and
\* status when every qualifying named file is unchanged (same readability,
\* same line count and same cause of failure); with the same readability and
\* line count alone they give the same status and the same output up to the
\* failure description. Files named by non-qualifying paths do not matter.
C8_Deterministic ==
  /\ (SecondDone /\ \A p \in DOMAIN fs : IsPy(p) => fs[p] = First.fs[p])
       => (stdout = First.stdout /\ exit = First.exit)
  /\ (SecondDone /\ \A p \in DOMAIN fs : IsPy(p) => SameReadabilityAndCount(p))
       => (SameUpToDescription /\ exit = First.exit)

C8_Witness ==
  /\ SecondDone
  /\ fs # First.fs
  /\ \A p \in DOMAIN fs : IsPy(p) => fs[p] = First.fs[p]
  /\ Len(stdout) = 2

(***************************************************************************)
(* C9                                                                      *)
(***************************************************************************)

C9_OneAtATime ==
  /\ Cardinality(f) <= 1
  /\ f \subseteq {i}
  /\ (pc # "with") => f = {}
  /\ \A m \in 1 .. Len(opened), n \in 1 .. Len(opened) :
       m < n => opened[m] < opened[n]

C9_Forward == i' = i \/ (i' = i + 1 /\ i < Len(argv))

C9_OneTerminalState ==
  Done =>
    /\ Len(exit) = 1
    /\ \/ (exit = <<0>> /\ stdout = <<>>)
       \/ (exit = <<1>> /\ LinesOfKind("header") = {1} /\ LinesOfKind("error") = {})
       \/ (exit = <<1>> /\ LinesOfKind("error") = {1} /\ Len(stdout) = 1)
    /\ i = (IF AnyUnreadable THEN FirstUnreadable ELSE Len(argv))

\* C9: positions are visited one by one in input order, each qualifying
\* position is opened at most once with at most one file open at a time, and
\* every run ends in exactly one terminal state (clean exit 0, report exit 1
\* or read-error exit 1) after all positions, or after the positions up to
\* the first unreadable qualifying one.
C9_SequentialAndTerminates ==
  /\ [](C9_OneAtATime)
  /\ [][C9_Forward]_vars
  /\ [](C9_OneTerminalState)
  /\ <>Done
  /\ [][Done => UNCHANGED vars]_vars

C9_Witness ==
  /\ pc = "with"
  /\ Len(opened) = 3
  /\ f = {3}

(***************************************************************************)
(* C10                                                                     *)
(***************************************************************************)

C10_Appended ==
  \/ violations' = violations
  \/ /\ Len(violations') = Len(violations) + 1
     /\ SubSeq(violations', 1, Len(violations)) = violations

\* C10: at every point the violations list is, in order, the (path, count)
\* pairs of the positions already processed whose path is qualifying,
\* readable and over 300 lines; entries are only appended, so a violating
\* path given at k positions has k entries; every count exceeds 300.
C10_Accumulator ==
  /\ [](violations = OverUpTo(Processed))
  /\ [](\A n \in 1 .. Len(violations) : violations[n][2] > 300)
  /\ [][C10_Appended]_vars

C10_Witness ==
  /\ Len(violations) = 3
  /\ violations[1] = violations[3]
  /\ violations[1] # violations[2]
  /\ pc = "for"

====
